---- MODULE Spec2Model ----
(***************************************************************************)
(* Model of the SendToComprehendMedical Lambda handler                     *)
(* (src/lambda/textract_comprehend_medical/app/main.py).                   *)
(*                                                                         *)
(* Strings are sequences of one-character strings, text is a sequence of   *)
(* Unicode code points and an object body is a sequence of bytes, so that  *)
(* urlparse, the page concatenation and str.encode are computed the way    *)
(* the code computes them.  Every invocation of handler is a process that  *)
(* takes one step per remote call (get_object, put_object,                 *)
(* start_icd10_cm_inference_job); the statements between two remote calls  *)
(* are local to the invocation and belong to the step that precedes them.  *)
(***************************************************************************)
EXTENDS Integers, Sequences, FiniteSets, TLC

(* ------------------------------ bounds --------------------------------- *)
MaxInv == 2
MaxKeyLen == 2
MaxPages == 2
MaxTextLen == 1

Inv == 1..MaxInv

(* --------------------------- string helpers ---------------------------- *)
None == <<"<None>">>

RECURSIVE Find(_, _, _)
\* str.find for a set of characters: first index >= from of a character of
\* chars in s, 0 when there is none (indices are 1-based).
Find(s, chars, from) ==
    IF from > Len(s) THEN 0
    ELSE IF s[from] \in chars THEN from
    ELSE Find(s, chars, from + 1)

RECURSIVE RFind(_, _, _)
\* last index <= from of a character of chars in s, 0 when there is none.
RFind(s, chars, from) ==
    IF from < 1 THEN 0
    ELSE IF s[from] \in chars THEN from
    ELSE RFind(s, chars, from - 1)

Slice(s, from, to) == IF from > to THEN <<>> ELSE SubSeq(s, from, to)

LowerChar(c) == IF c = "B" THEN "b" ELSE IF c = "S" THEN "s" ELSE c

Lower(s) == [n \in 1..Len(s) |-> LowerChar(s[n])]

AsciiLetters == {"s", "b", "c", "k", "B", "S"}

SchemeChars == AsciiLetters \cup {"3", "+", "-", "."}

(* ------------------------------ urlparse ------------------------------- *)
\* urllib.parse.urlsplit as used by urlparse for a scheme outside
\* uses_params: scheme, netloc, then fragment and query cut off the path.
UrlAfterScheme(url) ==
    LET i == Find(url, {":"}, 1)
    IN  IF i > 1 /\ url[1] \in AsciiLetters
           /\ \A n \in 1..(i - 1) : url[n] \in SchemeChars
        THEN Slice(url, i + 1, Len(url))
        ELSE url

UrlNetloc(url) ==
    LET rest == UrlAfterScheme(url)
    IN  IF Len(rest) >= 2 /\ rest[1] = "/" /\ rest[2] = "/"
        THEN LET d == Find(rest, {"/", "?", "#"}, 3)
             IN  IF d = 0 THEN Slice(rest, 3, Len(rest)) ELSE Slice(rest, 3, d - 1)
        ELSE <<>>

UrlAfterNetloc(url) ==
    LET rest == UrlAfterScheme(url)
    IN  IF Len(rest) >= 2 /\ rest[1] = "/" /\ rest[2] = "/"
        THEN LET d == Find(rest, {"/", "?", "#"}, 3)
             IN  IF d = 0 THEN <<>> ELSE Slice(rest, d, Len(rest))
        ELSE rest

UrlPath(url) ==
    LET rest == UrlAfterNetloc(url)
        f == Find(rest, {"#"}, 1)
        nofrag == IF f = 0 THEN rest ELSE Slice(rest, 1, f - 1)
        q == Find(nofrag, {"?"}, 1)
    IN  IF q = 0 THEN nofrag ELSE Slice(nofrag, 1, q - 1)

\* ParseResult.hostname: user info and port removed, lower-cased, None when
\* empty.
UrlHostname(url) ==
    LET netloc == UrlNetloc(url)
        a == RFind(netloc, {"@"}, Len(netloc))
        hostinfo == Slice(netloc, a + 1, Len(netloc))
        p == Find(hostinfo, {":"}, 1)
        hostname == IF p = 0 THEN hostinfo ELSE Slice(hostinfo, 1, p - 1)
    IN  IF hostname = <<>> THEN None ELSE Lower(hostname)

\* bucket = urlparse(output_json).hostname
ParseBucket(output_json) == UrlHostname(output_json)

\* object_key = urlparse(output_json).path[1:]
ParseKey(output_json) ==
    LET path == UrlPath(output_json)
    IN  Slice(path, 2, Len(path))

(* ------------------------------- inputs -------------------------------- *)
Buckets == {<<"b">>, <<"c">>}

KeyChars == {"k", "#"}

RECURSIVE SeqsUpTo(_, _)
SeqsUpTo(S, n) ==
    IF n = 0 THEN {<<>>}
    ELSE LET shorter == SeqsUpTo(S, n - 1)
         IN  shorter \cup {Append(s, x) : s \in {t \in shorter : Len(t) = n - 1}, x \in S}

Keys == SeqsUpTo(KeyChars, MaxKeyLen)

\* The locator the upstream stage builds for an object: s3://{bucket}/{key}.
S3Uri(b, k) == <<"s", "3", ":", "/", "/">> \o b \o <<"/">> \o k

\* An invocation event.  has: the event has a 'textract_result' entry;
\* truthy: that entry is truthy (a non-empty dict); haspath: it has a
\* 'TextractOutputJsonPath' entry, whose value is path.
Event(has, truthy, haspath, path) ==
    [has |-> has, truthy |-> truthy, haspath |-> haspath, path |-> path]

EvAbsent == Event(FALSE, FALSE, FALSE, <<>>)

EvFalsy == Event(TRUE, FALSE, FALSE, <<>>)

EvNoPath == Event(TRUE, TRUE, FALSE, <<>>)

EvPath(uri) == Event(TRUE, TRUE, TRUE, uri)

Events == {EvAbsent, EvFalsy, EvNoPath} \cup {EvPath(S3Uri(b, k)) : b \in Buckets, k \in Keys}

(* --------------------------- stored objects ---------------------------- *)
\* Code points: 'H', U+00E9 (two bytes in UTF-8), U+D800 (a lone surrogate,
\* which json.loads accepts and str.encode rejects).
Chars == {72, 233, 55296}

Texts == SeqsUpTo(Chars, MaxTextLen)

PageLists == SeqsUpTo(Texts, MaxPages)

\* What the bytes of a stored object are to json.loads and trp.Document.
JsonDoc(pages) == [type |-> "document", pages |-> pages, body |-> <<>>]

BadJson == [type |-> "bad_json", pages |-> <<>>, body |-> <<>>]

BadSchema == [type |-> "bad_schema", pages |-> <<>>, body |-> <<>>]

Bytes(body) == [type |-> "bytes", pages |-> <<>>, body |-> body]

Contents == {JsonDoc(p) : p \in PageLists} \cup {BadJson, BadSchema}

(* ------------------------------- errors -------------------------------- *)
Ok == [type |-> "ok", arg |-> "", cause |-> "none"]

Error(type, arg) == [type |-> type, arg |-> arg, cause |-> "none"]

IsError(resp) == resp.type # "ok"

InvalidEvent == Error("RuntimeError", "Invalid lambda event.")

(* --------------------------- pure code pieces -------------------------- *)
\* if event.get('textract_result'):
HasTextractResult(ev) == ev.has /\ ev.truthy

RECURSIVE FlattenWithNewlines(_)
\* Flatten, with a line feed put after every page.
FlattenWithNewlines(pages) ==
    IF pages = <<>> THEN <<>>
    ELSE FlattenWithNewlines(SubSeq(pages, 1, Len(pages) - 1)) \o pages[Len(pages)] \o <<10>>

RECURSIVE Flatten(_)
\* text_content = ""; for page in document.pages: text_content += page.text
Flatten(pages) ==
    IF pages = <<>> THEN <<>>
    ELSE Flatten(SubSeq(pages, 1, Len(pages) - 1)) \o pages[Len(pages)]

IsSurrogate(c) == c >= 55296 /\ c <= 57343

Utf8(c) ==
    IF c < 128 THEN <<c>>
    ELSE IF c < 2048 THEN <<192 + (c \div 64), 128 + (c % 64)>>
    ELSE <<224 + (c \div 4096), 128 + ((c \div 64) % 64), 128 + (c % 64)>>

RECURSIVE Encode(_)
\* str.encode(text_content): UTF-8, strict.
Encode(text) ==
    IF text = <<>> THEN <<>>
    ELSE Utf8(text[1]) \o Encode(Tail(text))

Encodable(text) == \A n \in 1..Len(text) : ~IsSurrogate(text[n])

\* JobName, with the uuid left out of the name.
JobNameWithoutUuid(u) == <<"j", "o", "b", "-">>

\* job_name = f'job-{uuid.uuid4()}'; the uuid's 36 characters are one token.
JobName(u) == <<"j", "o", "b", "-", ToString(u)>>

\* Key=f'{job_name}/result.txt'
ArtifactKey(job_name) == job_name \o <<"/", "r", "e", "s", "u", "l", "t", ".", "t", "x", "t">>

\* InputDataConfig={'S3Bucket': bucket, 'S3Key': f'{job_name}'}
InputDataConfig(bucket, job_name) == [S3Bucket |-> bucket, S3Key |-> job_name]

\* OutputDataConfig={'S3Bucket': bucket, 'S3Key': f'cm-output/{job_name}'}
OutputDataConfig(bucket, job_name) ==
    [S3Bucket |-> bucket,
     S3Key |-> <<"c", "m", "-", "o", "u", "t", "p", "u", "t", "/">> \o job_name]

(* ------------------------------ the state ------------------------------ *)
VARIABLES
    storage,    \* S3: <<bucket, key>> -> object
    jobs,       \* Comprehend Medical: the inference jobs started, in order
    role,       \* os.getenv('COMPREHEND_MEDICAL_ROLE')
    issued,     \* the values uuid.uuid4() has returned
    inv         \* the invocations of handler: position, locals, calls, outcome

vars == <<storage, jobs, role, issued, inv>>

\* uuid.uuid4() returns 122 random bits; a value is taken to be returned once.
UUIDs == 1..MaxInv

RoleArn == <<"a", "r", "n">>

NoJob == [InputDataConfig |-> InputDataConfig(None, None),
          OutputDataConfig |-> InputDataConfig(None, None),
          JobName |-> None, DataAccessRoleArn |-> None, LanguageCode |-> ""]

\* One remote call as a test double records it.
Call(op, bucket, key, body, job, resp) ==
    [op |-> op, Bucket |-> bucket, Key |-> key, Body |-> body, Job |-> job, resp |-> resp]

Idle ==
    [pc |-> "idle", event |-> EvAbsent, bucket |-> None, object_key |-> None,
     text_content |-> <<>>, body |-> <<>>, job_name |-> None,
     calls |-> <<>>, traced |-> Ok, raised |-> Ok]

\* Reraise, with the error wrapped in a new one.
ReraiseWrapped(e) == [type |-> "RuntimeError", arg |-> e.arg, cause |-> e.type]

\* raise e
Reraise(e) == e

\* ExceptHandler, with the error traced and then dropped.
ExceptHandlerSwallowing(r, e) == [r EXCEPT !.pc = "returned", !.traced = e]

\* except Exception as e: traceback.print_exc(); raise e
ExceptHandler(r, e) == [r EXCEPT !.pc = "raised", !.traced = e, !.raised = Reraise(e)]

(* ------------------------------ the services --------------------------- *)
\* client.get_object(Bucket=bucket, Key=object_key) and resp['Body'].read()
GetObjectResponses(st, bucket, key) ==
    IF bucket = None \/ key = <<>>
    THEN {Error("ParamValidationError", "GetObject")}
    ELSE IF <<bucket, key>> \notin DOMAIN st
    THEN {Error("ClientError", "GetObject:NoSuchKey")}
    ELSE {Ok, Error("ClientError", "GetObject:AccessDenied")}

\* json.loads(...) and trp.Document(blocks) on the bytes read
ParseError(content) ==
    IF content.type = "bad_schema" THEN Error("KeyError", "Blocks")
    ELSE Error("JSONDecodeError", "Expecting value")

PutObjectResponses ==
    {Ok, Error("ClientError", "PutObject:AccessDenied"), Error("ClientError", "PutObject:SlowDown")}

\* boto3.client('comprehendmedical')
ClientResponses == {Ok, Error("NoRegionError", "You must specify a region.")}

\* cm_client.start_icd10_cm_inference_job(...): DataAccessRoleArn must be a str
StartJobResponses(arn) ==
    IF arn = None
    THEN {Error("ParamValidationError", "StartICD10CMInferenceJob")}
    ELSE {Ok, Error("ClientError", "StartICD10CMInferenceJob:TooManyRequestsException")}

S3Put(st, bucket, key, body) == (<<bucket, key>> :> Bytes(body)) @@ st

StartArgs(bucket, job_name, arn) ==
    [InputDataConfig |-> InputDataConfig(bucket, job_name),
     OutputDataConfig |-> OutputDataConfig(bucket, job_name),
     JobName |-> job_name, DataAccessRoleArn |-> arn, LanguageCode |-> "en"]

(* --------------------- the handler, between remote calls --------------- *)
\* lines 23-30: the validation of the event and the parse of the locator
OnInvoke(r, ev) ==
    LET r1 == [r EXCEPT !.event = ev]
    IN  IF ~HasTextractResult(ev) THEN ExceptHandler(r1, InvalidEvent)
        ELSE IF ~ev.haspath THEN ExceptHandler(r1, Error("KeyError", "TextractOutputJsonPath"))
        ELSE [r1 EXCEPT !.bucket = ParseBucket(ev.path),
                        !.object_key = ParseKey(ev.path),
                        !.pc = "get_object"]

\* OnGetObject, going on with an empty text when the read or the parse fails.
OnGetObjectIgnoringError(r, resp, content, u) ==
    LET pages == IF IsError(resp) \/ content.type # "document" THEN <<>> ELSE content.pages
        r1 == [r EXCEPT !.text_content = Flatten(pages), !.job_name = JobName(u)]
    IN  IF ~Encodable(r1.text_content)
        THEN ExceptHandler(r1, Error("UnicodeEncodeError", "surrogates not allowed"))
        ELSE [r1 EXCEPT !.body = Encode(r1.text_content), !.pc = "put_object"]

\* lines 31-40, after get_object answered resp with the object content: parse,
\* uuid4 (u), concatenation and encoding of the body to write
OnGetObject(r, resp, content, u) ==
    IF IsError(resp) THEN ExceptHandler(r, resp)
    ELSE IF content.type # "document" THEN ExceptHandler(r, ParseError(content))
    ELSE LET r1 == [r EXCEPT !.text_content = Flatten(content.pages),
                             !.job_name = JobName(u)]
         IN  IF ~Encodable(r1.text_content)
             THEN ExceptHandler(r1, Error("UnicodeEncodeError", "surrogates not allowed"))
             ELSE [r1 EXCEPT !.body = Encode(r1.text_content), !.pc = "put_object"]

\* OnPutObject, going on to the submission when put_object fails.
OnPutObjectIgnoringError(r, resp, cl) ==
    IF IsError(cl) THEN ExceptHandler(r, cl)
    ELSE [r EXCEPT !.pc = "start_job"]

\* OnPutObject, calling put_object again when it fails.
OnPutObjectRetrying(r, resp, cl) ==
    IF IsError(resp) THEN [r EXCEPT !.pc = "put_object"]
    ELSE IF IsError(cl) THEN ExceptHandler(r, cl)
    ELSE [r EXCEPT !.pc = "start_job"]

\* lines 40-41, after put_object answered resp and boto3.client answered cl
OnPutObject(r, resp, cl) ==
    IF IsError(resp) THEN ExceptHandler(r, resp)
    ELSE IF IsError(cl) THEN ExceptHandler(r, cl)
    ELSE [r EXCEPT !.pc = "start_job"]

\* OnStartJob, returning normally when the submission fails.
OnStartJobIgnoringError(r, resp) == [r EXCEPT !.pc = "returned"]

\* lines 42-54, after start_icd10_cm_inference_job answered resp
OnStartJob(r, resp) ==
    IF IsError(resp) THEN ExceptHandler(r, resp)
    ELSE [r EXCEPT !.pc = "returned"]

Logged(r, call) == [r EXCEPT !.calls = Append(@, call)]

(* ------------------------------- actions ------------------------------- *)
\* The objects the upstream stage left in storage: one of contents in bucket
\* b, a two-page document in bucket c.
InitWith(contents) ==
    /\ \E content \in contents :
          storage = (<<(<<"b">>), (<<"k">>)>> :> content)
                    @@ (<<(<<"c">>), (<<"k">>)>> :> JsonDoc(<<(<<72>>), (<<233>>)>>))
    /\ jobs = <<>>
    /\ role \in {None, RoleArn}
    /\ issued = {}
    /\ inv = [i \in Inv |-> Idle]

\* The objects and events of the specification of concurrent invocations.
SharedContents == {JsonDoc(<<>>), JsonDoc(<<(<<72>>), (<<233>>)>>), BadJson}

SharedEvents ==
    {EvAbsent, EvFalsy, EvNoPath, EvPath(S3Uri(<<"b">>, <<"k">>)), EvPath(S3Uri(<<"c">>, <<"k">>)),
     EvPath(S3Uri(<<"b">>, <<"k", "k">>))}

Init == InitWith(SharedContents)

InitData == InitWith(Contents)

\* The framework invokes handler(event, context).
Invoke(i, ev) ==
    /\ inv[i].pc = "idle"
    /\ inv' = [inv EXCEPT ![i] = OnInvoke(@, ev)]
    /\ UNCHANGED <<storage, jobs, role, issued>>

GetObject(i) ==
    /\ inv[i].pc = "get_object"
    /\ LET r == inv[i]
           at == <<r.bucket, r.object_key>>
       IN  \E resp \in GetObjectResponses(storage, r.bucket, r.object_key) :
           \E u \in UUIDs \ issued :
              LET content == IF IsError(resp) THEN BadJson ELSE storage[at]
                  logged == Logged(r, Call("get_object", r.bucket, r.object_key, <<>>, NoJob, resp))
                  next == OnGetObject(logged, resp, content, u)
              IN  /\ inv' = [inv EXCEPT ![i] = next]
                  /\ issued' = IF next.job_name = None THEN issued ELSE issued \cup {u}
    /\ UNCHANGED <<storage, jobs, role>>

PutObject(i) ==
    /\ inv[i].pc = "put_object"
    /\ LET r == inv[i]
           key == ArtifactKey(r.job_name)
       IN  \E resp \in PutObjectResponses :
           \E cl \in ClientResponses :
              /\ inv' = [inv EXCEPT ![i] =
                    OnPutObject(Logged(r, Call("put_object", r.bucket, key, r.body, NoJob, resp)),
                                resp, cl)]
              /\ storage' = IF IsError(resp) THEN storage
                            ELSE S3Put(storage, r.bucket, key, r.body)
    /\ UNCHANGED <<jobs, role, issued>>

StartJob(i) ==
    /\ inv[i].pc = "start_job"
    /\ LET r == inv[i]
           job == StartArgs(r.bucket, r.job_name, role)
       IN  \E resp \in StartJobResponses(role) :
              /\ inv' = [inv EXCEPT ![i] =
                    OnStartJob(Logged(r, Call("start_icd10_cm_inference_job",
                                              r.bucket, r.job_name, <<>>, job, resp)),
                               resp)]
              /\ jobs' = IF IsError(resp) THEN jobs ELSE Append(jobs, job)
    /\ UNCHANGED <<storage, role, issued>>

\* The framework ends the invocation while it waits for a remote call.
Crash(i) ==
    /\ inv[i].pc \in {"get_object", "put_object", "start_job"}
    /\ inv' = [inv EXCEPT ![i].pc = "crashed"]
    /\ UNCHANGED <<storage, jobs, role, issued>>

\* Concurrent invocations over a few events and objects.
Next ==
    \/ \E i \in Inv, ev \in SharedEvents : Invoke(i, ev)
    \/ \E i \in Inv : GetObject(i)
    \/ \E i \in Inv : PutObject(i)
    \/ \E i \in Inv : StartJob(i)
    \/ \E i \in Inv : Crash(i)

Spec == Init /\ [][Next]_vars

\* One invocation over every event, locator and stored object of the bounds.
NextData ==
    \/ \E ev \in Events : Invoke(1, ev)
    \/ GetObject(1)
    \/ PutObject(1)
    \/ StartJob(1)
    \/ Crash(1)

SpecData == InitData /\ [][NextData]_vars

(* ------------------------- vocabulary of the claims -------------------- *)
OpsOf(r) == [n \in 1..Len(r.calls) |-> r.calls[n].op]

HandlerOps == <<"get_object", "put_object", "start_icd10_cm_inference_job">>

IsPrefix(s, t) == Len(s) <= Len(t) /\ \A n \in 1..Len(s) : s[n] = t[n]

\* {job_id}/result.txt
ResultTxt(job_id) == job_id \o <<"/", "r", "e", "s", "u", "l", "t", ".", "t", "x", "t">>

\* cm-output/{job_id}
CmOutput(job_id) == <<"c", "m", "-", "o", "u", "t", "p", "u", "t", "/">> \o job_id

Started(r) == r.pc # "idle"

MissingReference(ev) == ~ev.has \/ ~ev.truthy \/ ~ev.haspath

FailedCall(r, op) ==
    \E n \in 1..Len(r.calls) : r.calls[n].op = op /\ IsError(r.calls[n].resp)

GoodCall(r, op) ==
    \E n \in 1..Len(r.calls) : r.calls[n].op = op /\ ~IsError(r.calls[n].resp)

Called(r, op) == \E n \in 1..Len(r.calls) : r.calls[n].op = op

(* --------------------------------- C1 ---------------------------------- *)
\* C1: an invocation whose event lacks the reference (no 'textract_result',
\* a falsy one, or one without 'TextractOutputJsonPath') ends by raising the
\* invalid-input error and has made no storage and no service call.
C1_InvalidInputRejected ==
    \A i \in Inv :
        (Started(inv[i]) /\ MissingReference(inv[i].event))
            => /\ inv[i].pc = "raised"
               /\ inv[i].raised = InvalidEvent
               /\ inv[i].calls = <<>>

(* --------------------------------- C2 ---------------------------------- *)
\* C2: every started job's input prefix {job_id} holds {job_id}/result.txt,
\* and in every invocation the submission call comes after a put_object of
\* {job_id}/result.txt that succeeded.
C2_WriteBeforeSubmit ==
    /\ \A n \in 1..Len(jobs) :
          <<jobs[n].InputDataConfig.S3Bucket, ResultTxt(jobs[n].InputDataConfig.S3Key)>>
              \in DOMAIN storage
    /\ \A i \in Inv : \A n \in 1..Len(inv[i].calls) :
          inv[i].calls[n].op = "start_icd10_cm_inference_job"
              => \E m \in 1..(n - 1) :
                    /\ inv[i].calls[m].op = "put_object"
                    /\ ~IsError(inv[i].calls[m].resp)
                    /\ inv[i].calls[m].Bucket = inv[i].calls[n].Job.InputDataConfig.S3Bucket
                    /\ inv[i].calls[m].Key = ResultTxt(inv[i].calls[n].Job.InputDataConfig.S3Key)

C2_Witness == Len(jobs) > 0

(* --------------------------------- C3 ---------------------------------- *)
\* C3: when put_object fails, the invocation makes no submission call and
\* ends by raising the error put_object raised, as it was raised.
C3_PutFailurePropagates ==
    \A i \in Inv : \A n \in 1..Len(inv[i].calls) :
        (inv[i].calls[n].op = "put_object" /\ IsError(inv[i].calls[n].resp))
            => /\ ~Called(inv[i], "start_icd10_cm_inference_job")
               /\ inv[i].pc = "raised"
               /\ inv[i].raised = inv[i].calls[n].resp

C3_Witness == \E i \in Inv : FailedCall(inv[i], "put_object")

(* --------------------------------- C4 ---------------------------------- *)
\* The object an invocation's get_object names (the objects events name are
\* never rewritten: artifacts go to job-.../result.txt).
ObjectRead(r) == storage[<<r.bucket, r.object_key>>]

ParseFails(r) == GoodCall(r, "get_object") /\ ObjectRead(r).type # "document"

\* C4: a failed call is the invocation's last call (no retry, no recovery)
\* and a failed call or parse ends the invocation by raising that very
\* error, which is also the one traced; an invocation that returned made the
\* read, the write and the submission, and all three succeeded.
C4_NeverSwallows ==
    \A i \in Inv :
        LET r == inv[i]
        IN  /\ \A n \in 1..Len(r.calls) :
                  IsError(r.calls[n].resp)
                      => /\ n = Len(r.calls)
                         /\ r.pc = "raised"
                         /\ r.traced = r.calls[n].resp
                         /\ r.raised = r.calls[n].resp
            /\ ParseFails(r)
                  => r.pc = "raised" /\ r.traced = ParseError(ObjectRead(r))
                     /\ r.raised = ParseError(ObjectRead(r))
            /\ r.pc = "raised" => IsError(r.raised) /\ r.raised = r.traced
            /\ r.pc = "returned"
                  => /\ OpsOf(r) = HandlerOps
                     /\ \A n \in 1..3 : ~IsError(r.calls[n].resp)

C4_Witness ==
    \E i \in Inv : inv[i].pc = "raised" /\ FailedCall(inv[i], "start_icd10_cm_inference_job")

(* --------------------------------- C5 ---------------------------------- *)
PutKeys(r) ==
    {<<r.calls[n].Bucket, r.calls[n].Key>> :
        n \in {m \in 1..Len(r.calls) : r.calls[m].op = "put_object"}}

JobsNamed(name) == {n \in 1..Len(jobs) : jobs[n].JobName = name}

\* C5: two invocations, also of the same event and interleaved, never have
\* the same job identifier nor write the same storage key, and every
\* invocation that returned has its own job in the service.
C5_DistinctPerInvocation ==
    /\ \A i, j \in Inv :
          i # j
              => /\ (inv[i].job_name # None /\ inv[j].job_name # None)
                        => /\ inv[i].job_name # inv[j].job_name
                           /\ ResultTxt(inv[i].job_name) # ResultTxt(inv[j].job_name)
                 /\ PutKeys(inv[i]) \cap PutKeys(inv[j]) = {}
    /\ \A i \in Inv :
          inv[i].pc = "returned" => Cardinality(JobsNamed(inv[i].job_name)) = 1
    /\ Len(jobs) = Cardinality({i \in Inv : inv[i].pc = "returned"})

C5_Witness ==
    \E i, j \in Inv :
        /\ i # j
        /\ inv[i].event = inv[j].event
        /\ inv[i].pc = "returned"
        /\ inv[j].pc = "returned"

(* --------------------------------- C6 ---------------------------------- *)
RECURSIVE PagesInOrder(_, _)
\* The UTF-8 bytes of pages n, n+1, ..., one page after the other.
PagesInOrder(pages, n) ==
    IF n > Len(pages) THEN <<>>
    ELSE Encode(pages[n]) \o PagesInOrder(pages, n + 1)

\* C6: the body handler writes is the pages' text in index order with nothing
\* between the pages; a document without pages is written as the empty body,
\* and the write and the submission are made for it as for any other.
C6_BodyIsConcatenation ==
    \A i \in Inv :
        LET r == inv[i]
        IN  /\ \A n \in 1..Len(r.calls) :
                  r.calls[n].op = "put_object"
                      => r.calls[n].Body = PagesInOrder(ObjectRead(r).pages, 1)
            /\ (GoodCall(r, "get_object") /\ ObjectRead(r) = JsonDoc(<<>>))
                  => /\ r.pc \in {"put_object", "crashed"} \/ Called(r, "put_object")
                     /\ r.pc = "returned" => r.calls[2].Body = <<>>
                     /\ (GoodCall(r, "put_object") /\ r.pc = "raised"
                         /\ r.raised \notin ClientResponses)
                           => Called(r, "start_icd10_cm_inference_job")

C6_Witness ==
    \E i \in Inv :
        /\ GoodCall(inv[i], "put_object")
        /\ Len(ObjectRead(inv[i]).pages) = 2
        /\ ObjectRead(inv[i]).pages[1] # ObjectRead(inv[i]).pages[2]
        /\ ObjectRead(inv[i]).pages[1] # <<>>
        /\ ObjectRead(inv[i]).pages[2] # <<>>

(* --------------------------------- C7 ---------------------------------- *)
\* C7: an invocation that returned, for the locator s3://B/K and the job
\* identifier J, read bucket B key K, wrote bucket B key J/result.txt, and
\* submitted job name J, input (B, J), output (B, cm-output/J).
C7_SameBucketSameJob ==
    \A i \in Inv : \A B \in Buckets : \A K \in Keys :
        (inv[i].pc = "returned" /\ inv[i].event = EvPath(S3Uri(B, K)))
            => LET r == inv[i]
                   J == r.job_name
               IN  /\ r.calls[1].op = "get_object"
                   /\ r.calls[1].Bucket = B
                   /\ r.calls[1].Key = K
                   /\ r.calls[2].op = "put_object"
                   /\ r.calls[2].Bucket = B
                   /\ r.calls[2].Key = ResultTxt(J)
                   /\ r.calls[3].op = "start_icd10_cm_inference_job"
                   /\ r.calls[3].Job.JobName = J
                   /\ r.calls[3].Job.InputDataConfig = [S3Bucket |-> B, S3Key |-> J]
                   /\ r.calls[3].Job.OutputDataConfig = [S3Bucket |-> B, S3Key |-> CmOutput(J)]

(* --------------------------------- C8 ---------------------------------- *)
\* C8: the calls of an invocation are a prefix of get_object, put_object,
\* start_icd10_cm_inference_job (at most one of each, in that order, and no
\* other call); an invocation that returned made all three.
C8_OneOfEachInOrder ==
    \A i \in Inv :
        /\ IsPrefix(OpsOf(inv[i]), HandlerOps)
        /\ inv[i].pc = "returned" => Len(inv[i].calls) = 3

C8_Witness == \E i \in Inv : inv[i].pc = "returned" /\ OpsOf(inv[i]) = HandlerOps

(* --------------------------------- C9 ---------------------------------- *)
WroteThenStopped(r) ==
    /\ GoodCall(r, "put_object")
    /\ \/ FailedCall(r, "start_icd10_cm_inference_job")
       \/ r.pc = "crashed" /\ ~Called(r, "start_icd10_cm_inference_job")

\* C9: after a successful write, when the submission fails (an unset
\* COMPREHEND_MEDICAL_ROLE included) or the invocation is ended before it,
\* {job_id}/result.txt keeps the body written, no job has that identifier,
\* the invocation makes no further call, and a submission error is raised
\* to the caller.
C9_NoCompensation ==
    \A i \in Inv :
        LET r == inv[i]
        IN  /\ WroteThenStopped(r)
                  => /\ <<r.bucket, ResultTxt(r.job_name)>> \in DOMAIN storage
                     /\ storage[<<r.bucket, ResultTxt(r.job_name)>>] = Bytes(r.calls[2].Body)
                     /\ JobsNamed(r.job_name) = {}
                     /\ Len(r.calls) <= 3
                     /\ \A n \in 1..Len(r.calls) : r.calls[n].op \in
                           {"get_object", "put_object", "start_icd10_cm_inference_job"}
                     /\ FailedCall(r, "start_icd10_cm_inference_job")
                           => r.pc = "raised" /\ r.raised = r.calls[3].resp
            /\ (role = None /\ Called(r, "start_icd10_cm_inference_job"))
                  => FailedCall(r, "start_icd10_cm_inference_job")

C9_Witness ==
    \E i \in Inv :
        /\ role = None
        /\ GoodCall(inv[i], "put_object")
        /\ FailedCall(inv[i], "start_icd10_cm_inference_job")

(* --------------------------------- C10 --------------------------------- *)
ReadFails(r) == FailedCall(r, "get_object") \/ ParseFails(r)

\* C10: when get_object or the parse of the object fails, the invocation has
\* made no other call (no write, no submission), ends by raising that error,
\* and the step in which it fails leaves storage and the jobs as they were.
C10_ReadFailureStops ==
    /\ [](\A i \in Inv :
            ReadFails(inv[i])
                => /\ OpsOf(inv[i]) = <<"get_object">>
                   /\ inv[i].pc = "raised"
                   /\ inv[i].raised = IF FailedCall(inv[i], "get_object")
                                      THEN inv[i].calls[1].resp
                                      ELSE ParseError(ObjectRead(inv[i])))
    /\ [][\A i \in Inv :
            (~ReadFails(inv[i]) /\ ReadFails(inv[i])')
                => storage' = storage /\ jobs' = jobs]_vars

C10_Witness ==
    \E i, j \in Inv :
        /\ FailedCall(inv[i], "get_object")
        /\ ParseFails(inv[j])

====
